---- MODULE Spec2Model ----
(***************************************************************************)
(* AzureDevOpsRepoEntityProvider: discovery of the repositories of an      *)
(* Azure DevOps organization and their commit, as one full mutation, to    *)
(* the catalog (src/src/providers/AzureDevOpsEntityProvider.ts).           *)
(*                                                                         *)
(* The source file holds two variants of the provider class (lines 20-229  *)
(* and 249-470).  Their control flow is the same; they differ in the       *)
(* entity the mapper builds.  The variable `variant` says which one runs.  *)
(*                                                                         *)
(* A JavaScript string is a sequence of one-character strings; a string    *)
(* the code never looks into (an id, a URL, a fixed piece of a template)   *)
(* is a sequence of one token.  `Undefined` is the value of a missing      *)
(* property.                                                               *)
(*                                                                         *)
(* Spec is the provider with one invocation of run() at a time, SpecMapper *)
(* the mapper and the owner lookup alone on every input, SpecPair the      *)
(* provider with two invocations of run(), one after the other or          *)
(* overlapping.                                                            *)
(***************************************************************************)
EXTENDS Integers, Sequences, FiniteSets, TLC

VARIABLES
    variant,        \* "A": class of lines 20-229, "B": class of lines 249-470
    projectOwnerMap,\* this.config.projectOwnerMap
    connection,     \* this.connection is set
    scheduled,      \* connect() has handed run() to the schedule
    inventory,      \* the catalog: the deferred entities it holds, per provider
    pc,             \* where run() stands
    err,            \* what run() threw to its caller
    projects,       \* discoverRepositories: const projects
    pi,             \* index of the project of the for loop
    repositories,   \* discoverRepositories: const repositories
    ri,             \* index of the repo of the inner for loop
    entities,       \* discoverRepositories: const entities
    obs,            \* per listed project, what the remote system answered
    calls,          \* the remote and catalog calls run() has made
    threw,          \* those of them that threw
    applied,        \* the mutations handed to applyMutation by this run
    invAtStart,     \* the inventory when this run started
    runs,           \* runs started so far
    runLimit,       \* runs the behaviour may start
    org,            \* the projects the remote organization may list, in its order
    other,          \* the other invocation of run(): at an await, or ended before
    mapIn,          \* input of the mapper exercised alone
    mapOut          \* its result

vars == <<variant, projectOwnerMap, connection, scheduled, inventory, pc, err,
          projects, pi, repositories, ri, entities, obs, calls, threw, applied,
          invAtStart, runs, runLimit, org, other, mapIn, mapOut>>

----------------------------------------------------------------------------
(* Bounds *)

MaxProjects == 3
MaxRepos == 2
MaxRuns == 2
MaxTable == 2

----------------------------------------------------------------------------
(* JavaScript values *)

Undefined == <<"undefined">>
\* null, where an object is expected, and the undefined that find() returns
None == [null |-> TRUE]
NotFound == [undefined |-> TRUE]

\* !x for a string-or-undefined x is true of undefined and of ""
Truthy(s) == s # Undefined /\ s # <<>>

\* a || b
OrElse(a, b) == IF Truthy(a) THEN a ELSE b

UpperCase == <<"A","B","C","D","E","F","G","H","I","J","K","L","M",
               "N","O","P","Q","R","S","T","U","V","W","X","Y","Z">>
LowerCase == <<"a","b","c","d","e","f","g","h","i","j","k","l","m",
               "n","o","p","q","r","s","t","u","v","w","x","y","z">>
Digits == {"0","1","2","3","4","5","6","7","8","9"}

Range(s) == {s[i] : i \in DOMAIN s}

\* String.prototype.toLowerCase, per character
LowerChar(c) ==
    IF c \in Range(UpperCase)
    THEN LowerCase[CHOOSE i \in DOMAIN UpperCase : UpperCase[i] = c]
    ELSE c

toLowerCase(s) == [i \in DOMAIN s |-> LowerChar(s[i])]

\* the character class [a-z0-9-] of the regular expression
InKeyClass(c) == c \in Range(LowerCase) \cup Digits \cup {"-"}

\* a replacement that writes '_' for the characters outside the class
replaceNonKeyUnderscore(s) == [i \in DOMAIN s |-> IF InKeyClass(s[i]) THEN s[i] ELSE "_"]

\* s.replace(/[^a-z0-9-]/g, '-')
replaceNonKey(s) == [i \in DOMAIN s |-> IF InKeyClass(s[i]) THEN s[i] ELSE "-"]

----------------------------------------------------------------------------
(* The provider's configuration and identity *)

\* getProviderName()
getProviderName == <<"AzureDevOpsRepoEntityProvider">>

\* this.config.organization
organization == <<"https://dev.azure.com/contoso">>

\* Config.getString(key) on an entry of projectOwnerMap.  The entries are the
\* ones the configuration schema declares: both keys hold a non-empty string.
getString(p, key) == p[key]

\* Array.prototype.find with the predicate of the owner lookup: the first
\* entry whose projectName is the project's name, or undefined
findOwnerEntryLast(table, projectName) ==
    LET hits == {i \in DOMAIN table : getString(table[i], "projectName") = projectName}
    IN  IF hits = {} THEN NotFound
        ELSE table[CHOOSE i \in hits : \A j \in hits : j <= i]

findOwnerEntry(table, projectName) ==
    LET hits == {i \in DOMAIN table : getString(table[i], "projectName") = projectName}
    IN  IF hits = {} THEN NotFound
        ELSE table[CHOOSE i \in hits : \A j \in hits : i <= j]

\* find(...)?.getString('owner') || 'unknown'
resolveOwner(table, projectName) ==
    LET p == findOwnerEntry(table, projectName)
    IN  OrElse(IF p = NotFound THEN Undefined ELSE getString(p, "owner"),
               <<"unknown">>)

----------------------------------------------------------------------------
(* The entity mapper *)

\* metadata.name: variant A folds the project's name into it, variant B does not
entityName(v, repository, project) ==
    IF v = "A"
    THEN replaceNonKey(toLowerCase(project.name)) \o <<"-">>
            \o replaceNonKey(toLowerCase(repository.name))
    ELSE replaceNonKey(toLowerCase(repository.name))

\* the object literal of createRepositoryEntity
buildEntity(v, repository, project, owner, repoUrl) ==
    [ apiVersion |-> <<"backstage.io/v1alpha1">>,
      kind       |-> <<"Component">>,
      name       |-> entityName(v, repository, project),
      title      |-> repository.name,
      description |-> <<"Repository ">> \o repository.name
                        \o <<" in Azure DevOps project ">> \o project.name,
      projectRepo |-> project.name \o <<"/">> \o repository.name,
      managedByLocation |-> <<"azure-devops:">> \o organization,
      managedByOriginLocation |-> <<"azure-devops:">> \o organization,
      sourceLocation |-> IF v = "A" THEN Undefined
                         ELSE <<"url:">> \o repoUrl \o <<"/">>,
      tags       |-> << <<"azure-devops">>, toLowerCase(project.name) >>,
      links      |-> << [url |-> repoUrl, title |-> <<"Repository">>,
                         icon |-> <<"code">>] >>,
      type       |-> IF v = "A" THEN <<"service">> ELSE <<"repository">>,
      lifecycle  |-> IF v = "A" THEN <<"unknown">> ELSE <<"experimental">>,
      owner      |-> owner,
      relations  |-> IF v = "A"
                     THEN << [type |-> <<"ownedBy">>,
                              targetRef |-> <<"group:">> \o owner] >>
                     ELSE Undefined ]

\* a mapper that looks at webUrl only
createRepositoryEntityWebOnly(v, table, repository, project) ==
    IF ~Truthy(repository.id) \/ ~Truthy(repository.name) \/ ~Truthy(project.name)
    THEN None
    ELSE IF ~Truthy(repository.webUrl) THEN None
         ELSE buildEntity(v, repository, project,
                          resolveOwner(table, project.name), repository.webUrl)

\* createRepositoryEntity(repository, project)
createRepositoryEntity(v, table, repository, project) ==
    IF ~Truthy(repository.id) \/ ~Truthy(repository.name) \/ ~Truthy(project.name)
    THEN None
    ELSE LET owner   == resolveOwner(table, project.name)
             repoUrl == OrElse(repository.remoteUrl, repository.webUrl)
         IN  IF ~Truthy(repoUrl) THEN None
             ELSE buildEntity(v, repository, project, owner, repoUrl)

----------------------------------------------------------------------------
(* The exclusion probe *)

\* what gitApi.getItems answers: it throws, or it returns the root's items
Threw == [ok |-> FALSE, items |-> <<>>]
Returned(items) == [ok |-> TRUE, items |-> items]

\* the filter of hasCatalogInfoFile: items whose path is one of the two names
catalogInfoFilesYamlOnly(items) ==
    {i \in DOMAIN items : items[i] = "/catalog-info.yaml"}

catalogInfoFiles(items) ==
    {i \in DOMAIN items :
        items[i] = "/catalog-info.yaml" \/ items[i] = "/catalog-info.yml"}

\* a probe whose catch rethrows: the error reaches the caller
hasCatalogInfoFileRethrow(answer) ==
    IF answer.ok THEN IF Cardinality(catalogInfoFiles(answer.items)) > 0
                      THEN "true" ELSE "false"
    ELSE "throw"

\* hasCatalogInfoFile(gitApi, repositoryId): "true", "false", or "throw" when
\* an error leaves it
hasCatalogInfoFile(answer) ==
    IF answer.ok THEN IF Cardinality(catalogInfoFiles(answer.items)) > 0
                      THEN "true" ELSE "false"
    ELSE "false"

----------------------------------------------------------------------------
(* The remote organization: what the Azure DevOps API may answer *)

Alpha == [id |-> <<"p-alpha">>, name |-> <<"A","l","p","h","a">>]
Beta  == [id |-> <<"p-beta">>,  name |-> <<"B","e","t","a">>]
Gamma == [id |-> <<"p-gamma">>, name |-> <<"G","a","m","m","a">>]
NoIdProject   == [id |-> Undefined, name |-> <<"D","e","l","t","a">>]
NoNameProject == [id |-> <<"p-eps">>, name |-> <<>>]

\* the organization of the single runs, and the smaller one of the run sequences
LargeOrg == <<Alpha, NoIdProject, Beta, NoNameProject, Gamma>>
SmallOrg == <<Alpha, NoIdProject, Beta>>

SvcOne == [id |-> <<"r1">>, name |-> <<"s","v","c","-","o","n","e">>,
           remoteUrl |-> <<"https://remote/r1">>, webUrl |-> <<"https://web/r1">>,
           items |-> <<"/", "/README.md">>]
SvcTwo == [id |-> <<"r2">>, name |-> <<"s","v","c","-","t","w","o">>,
           remoteUrl |-> Undefined, webUrl |-> <<"https://web/r2">>,
           items |-> <<"/", "/catalog-info.yaml">>]
LibX   == [id |-> <<"r3">>, name |-> <<"L","i","b"," ","X">>,
           remoteUrl |-> <<"https://remote/r3">>, webUrl |-> <<>>,
           items |-> <<"/", "/Catalog-Info.yaml", "/catalog-info.yaml.bak">>]
NoUrl  == [id |-> <<"r4">>, name |-> <<"n","o","-","u","r","l">>,
           remoteUrl |-> Undefined, webUrl |-> Undefined,
           items |-> <<"/">>]
SvcOneYml == [id |-> <<"r5">>, name |-> <<"S","v","c"," ","O","n","e">>,
           remoteUrl |-> <<"https://remote/r5">>, webUrl |-> <<"https://web/r5">>,
           items |-> <<"/catalog-info.yml", "/">>]
NoIdRepo == [id |-> Undefined, name |-> <<"t","o","o","l","s">>,
           remoteUrl |-> <<"https://remote/r6">>, webUrl |-> Undefined,
           items |-> <<"/", "/catalog-info.yaml">>]
NoNameRepo == [id |-> <<"r7">>, name |-> <<>>,
           remoteUrl |-> <<"https://remote/r7">>, webUrl |-> <<"https://web/r7">>,
           items |-> <<"/">>]

\* the repositories a project may hold (a repository belongs to one project)
RepoPool(project) ==
    IF project = Alpha THEN {SvcOne, SvcTwo}
    ELSE IF project = Beta THEN {LibX, NoUrl}
    ELSE IF project = Gamma THEN {SvcOneYml, NoIdRepo, NoNameRepo}
    ELSE {}

\* the sequences of distinct elements of S, of length at most n
DistinctSeqs(S, n) ==
    {q \in UNION {[1..k -> S] : k \in 0..n} :
        \A i, j \in DOMAIN q : i # j => q[i] # q[j]}

\* the subsequences of s of length at most n
SubSeqs(s, n) ==
    {[i \in DOMAIN ix |-> s[ix[i]]] :
        ix \in {q \in UNION {[1..k -> DOMAIN s] : k \in 0..n} :
                    \A i, j \in DOMAIN q : i < j => q[i] < q[j]}}

\* what getProjects may answer: projects come and go between two calls
ProjectLists(o) == SubSeqs(o, MaxProjects)
RepoLists(project) == DistinctSeqs(RepoPool(project), MaxRepos)

\* the owner tables of the configuration
OwnerEntries ==
    [projectName : {Alpha.name, Beta.name}, owner : {<<"team-a">>, <<"team-b">>}]
OwnerTables == UNION {[1..k -> OwnerEntries] : k \in 0..MaxTable}

\* the table the runs are configured with: Alpha is listed twice, Beta once,
\* Gamma never
RunTables ==
    { << [projectName |-> Alpha.name, owner |-> <<"team-a">>],
         [projectName |-> Beta.name,  owner |-> <<"team-b">>],
         [projectName |-> Alpha.name, owner |-> <<"team-b">>] >> }

----------------------------------------------------------------------------
(* The catalog *)

\* EntityProviderConnection.applyMutation of the provider's connection: a
\* 'full' mutation replaces everything this provider had submitted, any other
\* one adds to it
CatalogApply(inv, provider, mutation) ==
    (IF mutation.type = "full" THEN {x \in inv : x.provider # provider} ELSE inv)
        \cup {[provider |-> provider,
               entity |-> mutation.entities[i].entity,
               locationKey |-> mutation.entities[i].locationKey] :
                    i \in DOMAIN mutation.entities}

\* what another provider has put into the catalog
ForeignRecord ==
    [provider |-> <<"OtherProvider">>, entity |-> [name |-> <<"other-entity">>],
     locationKey |-> <<"OtherProvider">>]

\* what an earlier run of this provider left for Alpha's svc-one and Beta's Lib X
StaleRecords(v, table) ==
    {[provider |-> getProviderName,
      entity |-> createRepositoryEntity(v, table, r[1], r[2]),
      locationKey |-> getProviderName] :
        r \in {<<SvcOne, Alpha>>, <<LibX, Beta>>}}

----------------------------------------------------------------------------
(* run() and discoverRepositories() *)

InFlight == {"getApis", "getProjects", "getRepositories", "getItems", "applyMutation"}
Ended == {"done", "failed", "abandoned"}

\* a loop head that skips only the projects without a name
skipsProjectNameOnly(project) == ~Truthy(project.name)

\* the head of the outer for loop: `if (!project.id || !project.name) continue`
skipsProject(project) == ~Truthy(project.id) \/ ~Truthy(project.name)

\* the index of the first project at or after i that the loop does not skip
RECURSIVE nextProject(_, _)
nextProject(prj, i) ==
    IF i > Len(prj) THEN i
    ELSE IF skipsProject(prj[i]) THEN nextProject(prj, i + 1)
    ELSE i

\* no other invocation
NoFrame == [pc |-> "none"]

Pending == [status |-> "pending", repos |-> <<>>, probes |-> <<>>]

\* the loop moves from the project before index i to the next it does not skip
EnterProject(prj, i, o) ==
    LET n == nextProject(prj, i)
    IN  /\ pi' = n
        /\ obs' = [k \in DOMAIN o |->
                     IF k >= i /\ k < n THEN [o[k] EXCEPT !.status = "skipped"]
                     ELSE o[k]]
        /\ pc' = IF n > Len(prj) THEN "applyMutation" ELSE "getRepositories"
        /\ repositories' = <<>>
        /\ ri' = 0

Config == <<variant, projectOwnerMap>>
Ghost == <<invAtStart, runs, runLimit, org, other>>
Pure == <<mapIn, mapOut>>

\* a connect() that hands run() to the schedule and does not store the connection
ConnectSchedulesOnly ==
    /\ ~scheduled
    /\ connection' = connection
    /\ scheduled' = TRUE
    /\ UNCHANGED <<Config, inventory, pc, err, projects, pi, repositories, ri,
                   entities, obs, calls, threw, applied, Ghost, Pure>>

\* connect(connection): store the connection, then hand run() to the schedule
Connect ==
    /\ ~scheduled
    /\ connection' = TRUE
    /\ scheduled' = TRUE
    /\ UNCHANGED <<Config, inventory, pc, err, projects, pi, repositories, ri,
                   entities, obs, calls, threw, applied, Ghost, Pure>>

\* a run() without the check of this.connection
EnterRunUnchecked ==
    /\ pc \in {"idle"} \cup Ended
    /\ runs < runLimit
    /\ runs' = runs + 1
    /\ invAtStart' = inventory
    /\ projects' = <<>> /\ pi' = 0 /\ repositories' = <<>> /\ ri' = 0
    /\ entities' = <<>> /\ obs' = <<>> /\ calls' = {} /\ threw' = {}
    /\ applied' = <<>>
    /\ pc' = "getApis" /\ err' = "none"
    /\ UNCHANGED <<Config, connection, scheduled, inventory, runLimit, org,
                   other, Pure>>

\* run() is entered: `if (!this.connection) throw new Error('Not initialized')`
EnterRun ==
    /\ pc \in {"idle"} \cup Ended
    /\ runs < runLimit
    /\ runs' = runs + 1
    /\ invAtStart' = inventory
    /\ projects' = <<>> /\ pi' = 0 /\ repositories' = <<>> /\ ri' = 0
    /\ entities' = <<>> /\ obs' = <<>> /\ calls' = {} /\ threw' = {}
    /\ applied' = <<>>
    /\ IF connection
       THEN pc' = "getApis" /\ err' = "none"
       ELSE pc' = "failed" /\ err' = "Not initialized"
    /\ UNCHANGED <<Config, connection, scheduled, inventory, runLimit, org,
                   other, Pure>>

\* the schedule of connect() calls run()
ScheduledRun == scheduled /\ EnterRun

\* some other caller calls the public run()
DirectRun == EnterRun

\* connection.getCoreApi() and connection.getGitApi()
GetApis ==
    /\ pc = "getApis"
    /\ calls' = calls \cup {"getApi"}
    /\ \E ok \in BOOLEAN :
         IF ok THEN pc' = "getProjects" /\ err' = err /\ threw' = threw
         ELSE pc' = "failed" /\ err' = "remote" /\ threw' = threw \cup {"getApi"}
    /\ UNCHANGED <<Config, connection, scheduled, inventory, projects, pi,
                   repositories, ri, entities, obs, applied, Ghost, Pure>>

\* a run() that takes a failed listing for an empty one and commits it
GetProjectsFailsAsEmpty ==
    /\ pc = "getProjects"
    /\ calls' = calls \cup {"getProjects"}
    /\ threw' = threw \cup {"getProjects"}
    /\ pc' = "applyMutation" /\ err' = err
    /\ UNCHANGED <<Config, connection, scheduled, inventory, projects, pi,
                   repositories, ri, entities, obs, applied, Ghost, Pure>>

\* coreApi.getProjects() throws: the catch of run() logs and rethrows
GetProjectsFails ==
    /\ pc = "getProjects"
    /\ calls' = calls \cup {"getProjects"}
    /\ threw' = threw \cup {"getProjects"}
    /\ pc' = "failed" /\ err' = "remote"
    /\ UNCHANGED <<Config, connection, scheduled, inventory, projects, pi,
                   repositories, ri, entities, obs, applied, Ghost, Pure>>

\* coreApi.getProjects() answers; the loop reaches its first project
GetProjects ==
    /\ pc = "getProjects"
    /\ calls' = calls \cup {"getProjects"}
    /\ \E answer \in ProjectLists(org) :
         /\ projects' = answer
         /\ EnterProject(answer, 1, [k \in DOMAIN answer |-> Pending])
    /\ entities' = <<>>
    /\ UNCHANGED <<Config, connection, scheduled, inventory, err, threw, applied,
                   Ghost, Pure>>

\* the members of a finite set, one after the other
RECURSIVE SeqOf(_)
SeqOf(S) == IF S = {} THEN <<>> ELSE LET x == CHOOSE y \in S : TRUE
                                     IN  <<x>> \o SeqOf(S \ {x})

\* a catch of the loop body that carries over what the catalog holds for the
\* project whose listing failed
GetRepositoriesFailsKeepsOld ==
    /\ pc = "getRepositories"
    /\ calls' = calls \cup {"getRepositories"}
    /\ threw' = threw \cup {"getRepositories"}
    /\ entities' = entities \o SeqOf(
          {x.entity : x \in {y \in inventory :
              /\ y.provider = getProviderName
              /\ SubSeq(y.entity.projectRepo, 1, Len(projects[pi].name))
                    = projects[pi].name}})
    /\ EnterProject(projects, pi + 1, [obs EXCEPT ![pi].status = "failed"])
    /\ UNCHANGED <<Config, connection, scheduled, inventory, err, projects,
                   applied, Ghost, Pure>>

\* a loop without the try/catch around its body: the error ends the run
GetRepositoriesFailsAborts ==
    /\ pc = "getRepositories"
    /\ calls' = calls \cup {"getRepositories"}
    /\ threw' = threw \cup {"getRepositories"}
    /\ obs' = [obs EXCEPT ![pi].status = "failed"]
    /\ pc' = "failed" /\ err' = "remote"
    /\ UNCHANGED <<Config, connection, scheduled, inventory, projects, pi,
                   repositories, ri, entities, applied, Ghost, Pure>>

\* gitApi.getRepositories(project.id) throws: the catch of the loop body logs a
\* warning and the loop goes on
GetRepositoriesFails ==
    /\ pc = "getRepositories"
    /\ calls' = calls \cup {"getRepositories"}
    /\ threw' = threw \cup {"getRepositories"}
    /\ EnterProject(projects, pi + 1, [obs EXCEPT ![pi].status = "failed"])
    /\ UNCHANGED <<Config, connection, scheduled, inventory, err, projects,
                   entities, applied, Ghost, Pure>>

\* gitApi.getRepositories(project.id) answers
GetRepositories ==
    /\ pc = "getRepositories"
    /\ calls' = calls \cup {"getRepositories"}
    /\ \E answer \in RepoLists(projects[pi]) :
         LET o == [obs EXCEPT ![pi].status = "listed", ![pi].repos = answer]
         IN  IF answer = <<>>
             THEN EnterProject(projects, pi + 1, o)
             ELSE /\ repositories' = answer /\ ri' = 1 /\ pc' = "getItems"
                  /\ pi' = pi /\ obs' = o
    /\ UNCHANGED <<Config, connection, scheduled, inventory, err, projects,
                   entities, threw, applied, Ghost, Pure>>

\* an inner loop that leaves out the entities the catalog already holds
ProcessRepositorySkipsKnown(answer) ==
    LET repo == repositories[ri]
        has  == hasCatalogInfoFile(answer)
        o    == [obs EXCEPT ![pi].probes =
                    Append(@, IF answer.ok THEN "ok" ELSE "failed")]
        entity == createRepositoryEntity(variant, projectOwnerMap, repo, projects[pi])
        known == \E x \in inventory : x.entity = entity
    IN  IF has = "throw"
        THEN /\ entities' = entities
             /\ EnterProject(projects, pi + 1, [o EXCEPT ![pi].status = "aborted"])
        ELSE /\ entities' = IF has = "false" /\ entity # None /\ ~known
                            THEN Append(entities, entity) ELSE entities
             /\ IF ri < Len(repositories)
                THEN /\ ri' = ri + 1 /\ pc' = pc /\ pi' = pi /\ obs' = o
                     /\ repositories' = repositories
                ELSE EnterProject(projects, pi + 1, o)

\* an inner loop that stops at the first repository the mapper gives no entity for
ProcessRepositoryStopsAtNone(answer) ==
    LET repo == repositories[ri]
        has  == hasCatalogInfoFile(answer)
        o    == [obs EXCEPT ![pi].probes =
                    Append(@, IF answer.ok THEN "ok" ELSE "failed")]
        entity == createRepositoryEntity(variant, projectOwnerMap, repo, projects[pi])
    IN  /\ entities' = IF has = "false" /\ entity # None
                       THEN Append(entities, entity) ELSE entities
        /\ IF ri < Len(repositories) /\ ~(has = "false" /\ entity = None)
           THEN /\ ri' = ri + 1 /\ pc' = pc /\ pi' = pi /\ obs' = o
                /\ repositories' = repositories
           ELSE EnterProject(projects, pi + 1, o)

\* an inner loop that puts each new entity in front of the ones before it
ProcessRepositoryUnshifts(answer) ==
    LET repo == repositories[ri]
        has  == hasCatalogInfoFile(answer)
        o    == [obs EXCEPT ![pi].probes =
                    Append(@, IF answer.ok THEN "ok" ELSE "failed")]
        entity == createRepositoryEntity(variant, projectOwnerMap, repo, projects[pi])
    IN  IF has = "throw"
        THEN /\ entities' = entities
             /\ EnterProject(projects, pi + 1, [o EXCEPT ![pi].status = "aborted"])
        ELSE /\ entities' = IF has = "false" /\ entity # None
                            THEN <<entity>> \o entities ELSE entities
             /\ IF ri < Len(repositories)
                THEN /\ ri' = ri + 1 /\ pc' = pc /\ pi' = pi /\ obs' = o
                     /\ repositories' = repositories
                ELSE EnterProject(projects, pi + 1, o)

\* one turn of the inner loop: hasCatalogInfoFile(gitApi, repo.id) with the
\* answer of gitApi.getItems, then createRepositoryEntity and the push
ProcessRepository(answer) ==
    LET repo == repositories[ri]
        has  == hasCatalogInfoFile(answer)
        o    == [obs EXCEPT ![pi].probes =
                    Append(@, IF answer.ok THEN "ok" ELSE "failed")]
        entity == createRepositoryEntity(variant, projectOwnerMap, repo, projects[pi])
    IN  IF has = "throw"
        THEN \* the error reaches the catch of the loop body: the project ends
             /\ entities' = entities
             /\ EnterProject(projects, pi + 1, [o EXCEPT ![pi].status = "aborted"])
        ELSE /\ entities' = IF has = "false" /\ entity # None
                            THEN Append(entities, entity) ELSE entities
             /\ IF ri < Len(repositories)
                THEN /\ ri' = ri + 1 /\ pc' = pc /\ pi' = pi /\ obs' = o
                     /\ repositories' = repositories
                ELSE EnterProject(projects, pi + 1, o)

GetItems ==
    /\ pc = "getItems"
    /\ calls' = calls \cup {"getItems"}
    /\ \E answer \in {Threw, Returned(repositories[ri].items)} :
         /\ threw' = IF answer.ok THEN threw ELSE threw \cup {"getItems"}
         /\ ProcessRepository(answer)
    /\ UNCHANGED <<Config, connection, scheduled, inventory, err, projects,
                   applied, Ghost, Pure>>

\* a mutation that adds the entities instead of replacing the set
fullMutationAsDelta(es) ==
    [type |-> "delta",
     entities |-> [i \in DOMAIN es |->
                     [entity |-> es[i], locationKey |-> getProviderName]]]

\* the mutation run() builds from the entities
fullMutation(es) ==
    [type |-> "full",
     entities |-> [i \in DOMAIN es |->
                     [entity |-> es[i], locationKey |-> getProviderName]]]

\* a run() whose catch swallows the rejection and goes on to report success
ApplyMutationSwallows ==
    /\ pc = "applyMutation"
    /\ calls' = calls \cup {"applyMutation"}
    /\ applied' = Append(applied, fullMutation(entities))
    /\ \E ok \in BOOLEAN :
         IF ok
         THEN /\ inventory' = CatalogApply(inventory, getProviderName,
                                           fullMutation(entities))
              /\ pc' = "done" /\ err' = err /\ threw' = threw
         ELSE /\ inventory' = inventory
              /\ pc' = "done" /\ err' = err
              /\ threw' = threw \cup {"applyMutation"}
    /\ UNCHANGED <<Config, connection, scheduled, projects, pi, repositories,
                   ri, entities, obs, Ghost, Pure>>

\* a run() that submits again when the catalog rejects the mutation
ApplyMutationRetries ==
    /\ pc = "applyMutation"
    /\ Len(applied) <= 1
    /\ calls' = calls \cup {"applyMutation"}
    /\ applied' = Append(applied, fullMutation(entities))
    /\ \E ok \in BOOLEAN :
         IF ok
         THEN /\ inventory' = CatalogApply(inventory, getProviderName,
                                           fullMutation(entities))
              /\ pc' = "done" /\ err' = err /\ threw' = threw
         ELSE /\ inventory' = inventory
              /\ pc' = pc /\ err' = err
              /\ threw' = threw \cup {"applyMutation"}
    /\ UNCHANGED <<Config, connection, scheduled, projects, pi, repositories,
                   ri, entities, obs, Ghost, Pure>>

\* this.connection.applyMutation(...): the catalog takes it, or rejects it and
\* the catch of run() logs and rethrows
ApplyMutation ==
    /\ pc = "applyMutation"
    /\ calls' = calls \cup {"applyMutation"}
    /\ applied' = Append(applied, fullMutation(entities))
    /\ \E ok \in BOOLEAN :
         IF ok
         THEN /\ inventory' = CatalogApply(inventory, getProviderName,
                                           fullMutation(entities))
              /\ pc' = "done" /\ err' = err /\ threw' = threw
         ELSE /\ inventory' = inventory
              /\ pc' = "failed" /\ err' = "commit"
              /\ threw' = threw \cup {"applyMutation"}
    /\ UNCHANGED <<Config, connection, scheduled, projects, pi, repositories,
                   ri, entities, obs, Ghost, Pure>>

\* the scheduler's timeout passes, or the process stops: the run is never
\* resumed and its frame is dropped
Abandon ==
    /\ pc \in InFlight
    /\ pc' = "abandoned"
    /\ projects' = <<>> /\ pi' = 0 /\ repositories' = <<>> /\ ri' = 0
    /\ entities' = <<>> /\ obs' = <<>>
    /\ UNCHANGED <<Config, connection, scheduled, inventory, err, calls, threw,
                   applied, Ghost, Pure>>

----------------------------------------------------------------------------
(* The specification of the provider *)

PriorInventories(v, table) ==
    { {}, {ForeignRecord} \cup StaleRecords(v, table) }

Init ==
    /\ variant \in {"A", "B"}
    /\ projectOwnerMap \in RunTables
    /\ connection = FALSE
    /\ scheduled = FALSE
    /\ inventory \in PriorInventories(variant, projectOwnerMap)
    /\ pc = "idle"
    /\ err = "none"
    /\ projects = <<>> /\ pi = 0 /\ repositories = <<>> /\ ri = 0
    /\ entities = <<>> /\ obs = <<>> /\ calls = {} /\ threw = {}
    /\ applied = <<>>
    /\ invAtStart = inventory
    /\ runs = 0
    /\ \/ org = LargeOrg /\ runLimit = 1
       \/ org = SmallOrg /\ runLimit = MaxRuns
    /\ other = NoFrame
    /\ mapIn = None /\ mapOut = None

Next ==
    \/ Connect
    \/ ScheduledRun
    \/ DirectRun
    \/ GetApis
    \/ GetProjectsFails
    \/ GetProjects
    \/ GetRepositoriesFails
    \/ GetRepositories
    \/ GetItems
    \/ ApplyMutation
    \/ Abandon

Spec == Init /\ [][Next]_vars

----------------------------------------------------------------------------
(* The mapper and the owner lookup, exercised alone on every input *)

MapperRepos ==
    [id        : {Undefined, <<>>, <<"r1">>},
     name      : {Undefined, <<>>, LibX.name},
     remoteUrl : {Undefined, <<>>, <<"https://remote/r">>},
     webUrl    : {Undefined, <<>>, <<"https://web/r">>},
     items     : {<<>>}]

MapperProjects ==
    [id : {<<"p">>}, name : {Undefined, <<>>, Alpha.name, Gamma.name}]

LookupNames ==
    {Alpha.name, Beta.name, Gamma.name, toLowerCase(Alpha.name), <<>>}

MapperInputs ==
    [op : {"map"}, v : {"A", "B"}, table : OwnerTables,
     repository : MapperRepos, project : MapperProjects]
        \cup [op : {"resolve"}, table : OwnerTables, projectName : LookupNames]

RunVarsIdle ==
    /\ variant = "A"
    /\ projectOwnerMap = <<>>
    /\ connection = FALSE /\ scheduled = FALSE
    /\ inventory = {} /\ invAtStart = {}
    /\ pc = "idle" /\ err = "none"
    /\ projects = <<>> /\ pi = 0 /\ repositories = <<>> /\ ri = 0
    /\ entities = <<>> /\ obs = <<>> /\ calls = {} /\ threw = {}
    /\ applied = <<>>
    /\ runs = 0 /\ runLimit = 0 /\ org = <<>> /\ other = NoFrame

InitMapper ==
    /\ RunVarsIdle
    /\ mapIn \in MapperInputs
    /\ mapOut = None

\* createRepositoryEntity(repository, project) is called
MapOne ==
    /\ mapOut = None
    /\ mapIn.op = "map"
    /\ mapOut' = [value |-> createRepositoryEntity(mapIn.v, mapIn.table,
                                                   mapIn.repository, mapIn.project)]
    /\ UNCHANGED <<Config, connection, scheduled, inventory, pc, err, projects,
                   pi, repositories, ri, entities, obs, calls, threw, applied,
                   Ghost, mapIn>>

\* the owner lookup of createRepositoryEntity is evaluated
ResolveOne ==
    /\ mapOut = None
    /\ mapIn.op = "resolve"
    /\ mapOut' = [value |-> resolveOwner(mapIn.table, mapIn.projectName)]
    /\ UNCHANGED <<Config, connection, scheduled, inventory, pc, err, projects,
                   pi, repositories, ri, entities, obs, calls, threw, applied,
                   Ghost, mapIn>>

NextMapper == MapOne \/ ResolveOne

SpecMapper == InitMapper /\ [][NextMapper]_vars

----------------------------------------------------------------------------
(* Two invocations of run() on one provider.  run() keeps its state in      *)
(* locals, so each invocation has a frame of its own; the frame the actions *)
(* work on is the variables, and `other` holds the second one: an            *)
(* invocation standing at an await, or the one that ended before.           *)

\* the smallest organization: one project, of two repositories
TinyOrg == <<Alpha>>

\* the frame of the invocation at hand.  rank: 1 for the one entered earlier,
\* 2 for the later; at: where the earlier one stood when the later was entered
ThisRun(rank, at) ==
    [pc |-> pc, err |-> err, projects |-> projects, pi |-> pi,
     repositories |-> repositories, ri |-> ri, entities |-> entities,
     obs |-> obs, calls |-> calls, threw |-> threw, applied |-> applied,
     invAtStart |-> invAtStart, rank |-> rank, at |-> at]

\* run() is entered with fresh locals
FreshRun ==
    /\ runs' = runs + 1
    /\ invAtStart' = inventory
    /\ projects' = <<>> /\ pi' = 0 /\ repositories' = <<>> /\ ri' = 0
    /\ entities' = <<>> /\ obs' = <<>> /\ calls' = {} /\ threw' = {}
    /\ applied' = <<>>
    /\ IF connection
       THEN pc' = "getApis" /\ err' = "none"
       ELSE pc' = "failed" /\ err' = "Not initialized"

\* run() is called after the invocation before it has ended
SuccessiveRun ==
    /\ pc \in {"idle"} \cup Ended
    /\ runs < runLimit
    /\ FreshRun
    /\ other' = IF other # NoFrame /\ other.pc \in InFlight THEN other
                ELSE IF pc = "idle" THEN NoFrame
                ELSE ThisRun(1, "ended")
    /\ UNCHANGED <<Config, connection, scheduled, inventory, runLimit, org, Pure>>

\* a run() that returns at once when an invocation is in flight
OverlappingRunGuarded ==
    /\ pc \in InFlight
    /\ other = NoFrame \/ other.pc \in Ended
    /\ runs < runLimit
    /\ runs' = runs + 1
    /\ UNCHANGED <<Config, connection, scheduled, inventory, pc, err, projects,
                   pi, repositories, ri, entities, obs, calls, threw, applied,
                   invAtStart, runLimit, org, other, Pure>>

\* run() is called while an invocation stands at an await: nothing in run()
\* looks for one, the new invocation starts and the earlier one waits
OverlappingRun ==
    /\ pc \in InFlight
    /\ other = NoFrame \/ other.pc \in Ended
    /\ runs < runLimit
    /\ FreshRun
    /\ other' = ThisRun(1, pc)
    /\ UNCHANGED <<Config, connection, scheduled, inventory, runLimit, org, Pure>>

\* the await of the waiting invocation settles: it goes on, the other waits
Resume ==
    /\ other # NoFrame
    /\ other.pc \in InFlight
    /\ pc' = other.pc /\ err' = other.err
    /\ projects' = other.projects /\ pi' = other.pi
    /\ repositories' = other.repositories /\ ri' = other.ri
    /\ entities' = other.entities /\ obs' = other.obs
    /\ calls' = other.calls /\ threw' = other.threw
    /\ applied' = other.applied /\ invAtStart' = other.invAtStart
    /\ other' = ThisRun(3 - other.rank, other.at)
    /\ UNCHANGED <<Config, connection, scheduled, inventory, runs, runLimit,
                   org, Pure>>

InitPair ==
    /\ variant \in {"A", "B"}
    /\ projectOwnerMap \in RunTables
    /\ connection = FALSE
    /\ scheduled = FALSE
    /\ inventory = {}
    /\ pc = "idle"
    /\ err = "none"
    /\ projects = <<>> /\ pi = 0 /\ repositories = <<>> /\ ri = 0
    /\ entities = <<>> /\ obs = <<>> /\ calls = {} /\ threw = {}
    /\ applied = <<>>
    /\ invAtStart = inventory
    /\ runs = 0
    /\ org = TinyOrg /\ runLimit = MaxRuns
    /\ other = NoFrame
    /\ mapIn = None /\ mapOut = None

NextPair ==
    \/ Connect
    \/ SuccessiveRun
    \/ OverlappingRun
    \/ Resume
    \/ GetApis
    \/ GetProjectsFails
    \/ GetProjects
    \/ GetRepositoriesFails
    \/ GetRepositories
    \/ GetItems
    \/ ApplyMutation
    \/ Abandon

SpecPair == InitPair /\ [][NextPair]_vars

----------------------------------------------------------------------------
(* What the claims speak of *)

NonEmpty(s) == s # Undefined /\ Len(s) > 0

\* a repository's root listing holds one of the two marker files
ListingHasMarker(repo) ==
    \E i \in DOMAIN repo.items :
        repo.items[i] \in {"/catalog-info.yaml", "/catalog-info.yml"}

\* the mapper preconditions of the specification
MeetsPreconditions(repo, project) ==
    /\ NonEmpty(repo.id) /\ NonEmpty(repo.name) /\ NonEmpty(project.name)
    /\ (NonEmpty(repo.remoteUrl) \/ NonEmpty(repo.webUrl))

\* the annotation that names the repository a record is for
RepoKey(project, repo) == project.name \o <<"/">> \o repo.name

HasRecord(es, project, repo) ==
    \E i \in DOMAIN es : es[i].projectRepo = RepoKey(project, repo)

\* the probe of the m-th repository of the k-th project read a listing that
\* holds a marker
Excluded(k, m) ==
    /\ m <= Len(obs[k].probes)
    /\ obs[k].probes[m] = "ok"
    /\ ListingHasMarker(obs[k].repos[m])

\* the m-th repository of the k-th project is to be in the output
Owed(k, m) ==
    /\ ~Excluded(k, m)
    /\ MeetsPreconditions(obs[k].repos[m], projects[k])

\* the entities of the mutation this run submitted
Submitted == [i \in DOMAIN applied[1].entities |-> applied[1].entities[i].entity]

\* what the catalog holds for this provider
Mine(inv) == {x \in inv : x.provider = getProviderName}

InInventory(project, repo) ==
    \E x \in Mine(inventory) : x.entity.projectRepo = RepoKey(project, repo)

\* the loop of discoverRepositories is over
LoopOver == pc \in {"applyMutation", "done"} \/ (pc = "failed" /\ err = "commit")

----------------------------------------------------------------------------
(* The claims *)

\* C1: fault isolation.  When getRepositories fails for a project, the run
\* does not fail for it, and once the run has committed, the committed set
\* and the inventory hold a record for every repository of every other,
\* listed project that is not excluded and meets the mapper preconditions.
C1_FaultIsolation ==
    \A k \in DOMAIN obs : obs[k].status = "failed" =>
        /\ ~(pc = "failed" /\ err = "remote")
        /\ pc = "done" =>
             \A j \in DOMAIN obs \ {k} : obs[j].status = "listed" =>
                \A m \in DOMAIN obs[j].repos : Owed(j, m) =>
                    /\ HasRecord(Submitted, projects[j], obs[j].repos[m])
                    /\ InInventory(projects[j], obs[j].repos[m])

\* the second of three projects fails; the first and the third each give a record
C1_Witness ==
    /\ pc = "done"
    /\ Len(projects) = 3
    /\ obs[1].status = "listed" /\ obs[2].status = "failed" /\ obs[3].status = "listed"
    /\ \E m \in DOMAIN obs[1].repos :
         Owed(1, m) /\ InInventory(projects[1], obs[1].repos[m])
    /\ \E m \in DOMAIN obs[3].repos :
         Owed(3, m) /\ InInventory(projects[3], obs[3].repos[m])

\* C2: when obtaining the API clients or getProjects throws, run() has failed
\* with that error, applyMutation was not called, and the inventory is the
\* one the run found.
C2_ListingFailureAborts ==
    threw \cap {"getApi", "getProjects"} # {} =>
        /\ pc = "failed" /\ err = "remote"
        /\ applied = <<>> /\ "applyMutation" \notin calls
        /\ inventory = invAtStart

C2_Witness ==
    /\ "getProjects" \in threw
    /\ pc = "failed"
    /\ Mine(inventory) # {} /\ inventory = invAtStart

\* every listed project has been skipped, has failed, or has had each of its
\* repositories probed
EveryProjectProcessed ==
    /\ DOMAIN obs = DOMAIN projects
    /\ \A k \in DOMAIN obs :
         /\ obs[k].status \in {"skipped", "failed", "listed"}
         /\ obs[k].status = "listed" => Len(obs[k].probes) = Len(obs[k].repos)

\* C3: single terminal commit.  A run calls applyMutation at most once, and
\* only when every project and repository has been processed; while the run
\* is in flight, and when it is abandoned, the inventory is the one it found.
C3_SingleTerminalCommit ==
    /\ Len(applied) <= 1
    /\ applied # <<>> => EveryProjectProcessed
    /\ pc \in InFlight \cup {"abandoned"} =>
         applied = <<>> /\ inventory = invAtStart

\* a second run is abandoned after it probed repositories: the inventory
\* still holds what the first run committed
C3_Witness ==
    /\ runs = 2 /\ pc = "abandoned"
    /\ "getItems" \in calls
    /\ InInventory(Alpha, SvcTwo)
    /\ inventory = invAtStart

\* C4: full replace.  A run that has committed has submitted one mutation, of
\* type 'full', whose records carry the provider's name as locationKey and
\* whose entities are the ones the run discovered; the inventory then holds
\* for this provider exactly these, what other providers hold is untouched,
\* and a record the inventory held before for a repository that no project
\* listed in this run is gone.
C4_FullReplace ==
    pc = "done" =>
        /\ Len(applied) = 1
        /\ applied[1].type = "full"
        /\ \A i \in DOMAIN applied[1].entities :
             applied[1].entities[i].locationKey = getProviderName
        /\ Submitted = entities
        /\ \A k \in DOMAIN obs : obs[k].status = "listed" =>
             \A m \in DOMAIN obs[k].repos :
                HasRecord(Submitted, projects[k], obs[k].repos[m]) <=> Owed(k, m)
        /\ {x.entity : x \in Mine(inventory)} = Range(entities)
        /\ \A x \in Mine(inventory) : x.locationKey = getProviderName
        /\ inventory \ Mine(inventory) = invAtStart \ Mine(invAtStart)
        /\ \A x \in Mine(invAtStart) :
             (\A k \in DOMAIN obs : \A m \in DOMAIN obs[k].repos :
                 x.entity.projectRepo # RepoKey(projects[k], obs[k].repos[m]))
             => x \notin inventory

\* the first run committed svc-two of Alpha; the second run lists Alpha
\* without it, commits, and the record is gone
C4_Witness ==
    /\ runs = 2 /\ pc = "done"
    /\ \E x \in Mine(invAtStart) : x.entity.projectRepo = RepoKey(Alpha, SvcTwo)
    /\ \E k \in DOMAIN obs :
         /\ projects[k] = Alpha /\ obs[k].status = "listed"
         /\ obs[k].repos = <<SvcOne>>
    /\ ~InInventory(Alpha, SvcTwo)
    /\ InInventory(Alpha, SvcOne)

\* C5: the probe keeps its error.  Where getItems threw for a repository, the
\* error did not end the project (the orchestrator saw none), the run did not
\* fail for it, and the repository, when it meets the mapper preconditions,
\* has its record in the output.
C5_ProbeNeverPropagates ==
    \A k \in DOMAIN obs : \A m \in DOMAIN obs[k].probes :
        obs[k].probes[m] = "failed" =>
            /\ obs[k].status = "listed"
            /\ ~(pc = "failed" /\ err = "remote")
            /\ MeetsPreconditions(obs[k].repos[m], projects[k])
                 => HasRecord(entities, projects[k], obs[k].repos[m])

\* getItems threw for svc-two, whose root holds catalog-info.yaml: it is in
\* the committed set
C5_Witness ==
    /\ pc = "done"
    /\ \E k \in DOMAIN obs : \E m \in DOMAIN obs[k].probes :
         /\ obs[k].probes[m] = "failed"
         /\ obs[k].repos[m] = SvcTwo
         /\ InInventory(projects[k], SvcTwo)

\* C6 as stated: whenever the loop is over, a listed repository whose root
\* listing holds a marker has no record, and every other listed repository
\* that meets the mapper preconditions has one.
C6_AsStated ==
    LoopOver =>
        \A k \in DOMAIN obs : obs[k].status = "listed" =>
            \A m \in DOMAIN obs[k].repos :
                IF ListingHasMarker(obs[k].repos[m])
                THEN ~HasRecord(entities, projects[k], obs[k].repos[m])
                ELSE MeetsPreconditions(obs[k].repos[m], projects[k])
                        => HasRecord(entities, projects[k], obs[k].repos[m])

\* C6, amended: whenever the loop is over, a listed repository whose root
\* listing the probe has read, and which holds a marker, has no record; every
\* other listed repository (no marker, or a probe that failed) that meets the
\* mapper preconditions has one.
C6_ExclusionByMarker ==
    LoopOver =>
        \A k \in DOMAIN obs : obs[k].status = "listed" =>
            \A m \in DOMAIN obs[k].repos :
                IF Excluded(k, m)
                THEN ~HasRecord(entities, projects[k], obs[k].repos[m])
                ELSE MeetsPreconditions(obs[k].repos[m], projects[k])
                        => HasRecord(entities, projects[k], obs[k].repos[m])

\* both markers exclude, and a near miss of the name does not
C6_Witness ==
    /\ pc = "done"
    /\ \E k1, k2, k3 \in DOMAIN obs :
         /\ \E m \in DOMAIN obs[k1].repos :
              /\ obs[k1].repos[m] = SvcTwo /\ Excluded(k1, m)
              /\ ~InInventory(projects[k1], SvcTwo)
         /\ \E m \in DOMAIN obs[k2].repos :
              /\ obs[k2].repos[m] = SvcOneYml /\ Excluded(k2, m)
              /\ ~InInventory(projects[k2], SvcOneYml)
         /\ \E m \in DOMAIN obs[k3].repos :
              /\ obs[k3].repos[m] = LibX /\ obs[k3].probes[m] = "ok"
              /\ InInventory(projects[k3], LibX)

\* C7: mapper preconditions.  createRepositoryEntity gives a record exactly
\* when the repository's id and name and the project's name are non-empty and
\* one of remoteUrl and webUrl is there; the link of the record is remoteUrl
\* when both are there (and webUrl when only it is).
C7_MapperPreconditions ==
    (mapIn # None /\ mapIn.op = "map" /\ mapOut # None) =>
        LET r == mapIn.repository
            p == mapIn.project
        IN  /\ mapOut.value # None <=> MeetsPreconditions(r, p)
            /\ (~NonEmpty(r.remoteUrl) /\ ~NonEmpty(r.webUrl))
                 => mapOut.value = None
            /\ mapOut.value # None =>
                 /\ Len(mapOut.value.links) = 1
                 /\ mapOut.value.links[1].url =
                       IF NonEmpty(r.remoteUrl) THEN r.remoteUrl ELSE r.webUrl

\* a record for a repository with both URLs: its link is remoteUrl
C7_Witness ==
    /\ mapIn # None /\ mapIn.op = "map" /\ mapOut # None
    /\ NonEmpty(mapIn.repository.remoteUrl) /\ NonEmpty(mapIn.repository.webUrl)
    /\ mapOut.value # None
    /\ mapOut.value.links[1].url = mapIn.repository.remoteUrl

C10_NotInitialized ==
    /\ (runs > 0 /\ ~connection) => (pc = "failed" /\ err = "Not initialized")
    /\ err = "Not initialized" =>
         /\ pc = "failed"
         /\ calls = {} /\ threw = {} /\ applied = <<>>
         /\ inventory = invAtStart

C10_Witness ==
    /\ runs = 1 /\ ~connection
    /\ pc = "failed" /\ err = "Not initialized"
    /\ Mine(inventory) # {}


\* ---------------------------------------------------------------------------
\* C11  CommitFailed: once applyMutation has rejected the submission of a run,
\* the run has ended in failure with the commit error for its caller, it is
\* not in flight again and has not reported success, the mutation it built was
\* submitted exactly once, and every project had been gone through before.
C11_CommitFailed ==
    "applyMutation" \in threw =>
        /\ pc = "failed"
        /\ err = "commit"
        /\ Len(applied) = 1
        /\ applied[1] = fullMutation(entities)
        /\ EveryProjectProcessed

\* a run that discovered records and whose submission the catalog rejected
C11_Witness ==
    /\ "applyMutation" \in threw
    /\ pc = "failed"
    /\ Len(entities) >= 2
    /\ Len(applied) = 1


\* the records among es that belong to a project: the description of a record
\* names the project's name and the repository's
IsOf(e, project) ==
    /\ Len(e.projectRepo) > Len(project.name)
    /\ SubSeq(e.projectRepo, 1, Len(project.name) + 1) = project.name \o <<"/">>

OfProject(es, project) == {i \in DOMAIN es : IsOf(es[i], project)}

\* a project without a usable id or a usable name
MissingIdOrName(project) == ~NonEmpty(project.id) \/ ~NonEmpty(project.name)

\* C13  Projects missing id or name are skipped silently.  For every listed
\* project without an id or without a name: getRepositories is never called
\* for it (it is never listed and never fails), it is marked skipped once the
\* loop has passed it, no failure of the run comes from it (a run that has
\* gone through its projects commits unless the catalog rejects), and the
\* other projects are processed as without it: each of them is listed or
\* failed, and every repository of a listed one that is owed a record has it.
C13_SkippedSilently ==
    \A k \in DOMAIN obs :
        MissingIdOrName(projects[k]) =>
            /\ obs[k].status \in {"pending", "skipped"}
            /\ obs[k].repos = <<>> /\ obs[k].probes = <<>>
            /\ k < pi => obs[k].status = "skipped"
            /\ OfProject(entities, projects[k]) = {}
            /\ pc = "failed" => err = "commit"
            /\ LoopOver =>
                 \A j \in DOMAIN obs :
                     ~MissingIdOrName(projects[j]) =>
                         /\ obs[j].status \in {"listed", "failed"}
                         /\ \A m \in DOMAIN obs[j].repos :
                              Owed(j, m) => HasRecord(entities, projects[j],
                                                      obs[j].repos[m])

\* a committed run whose list held a project without id before, and a project
\* without name after, a project whose repository got its record
C13_Witness ==
    /\ pc = "done"
    /\ Len(projects) = 3
    /\ projects[1] = NoIdProject /\ projects[3] = NoNameProject
    /\ obs[1].status = "skipped" /\ obs[3].status = "skipped"
    /\ obs[2].status = "listed"
    /\ Len(entities) >= 1


\* every repository the run was given, as <<project index, repository index>>
Listed == UNION {{<<k, m>> : m \in DOMAIN obs[k].repos} : k \in DOMAIN obs}

\* the repository names the run was given are pairwise distinct
NamesDistinct ==
    \A a, b \in Listed :
        a # b => obs[a[1]].repos[a[2]].name # obs[b[1]].repos[b[2]].name

\* C14  Identity-key uniqueness: when the names of the repositories of the
\* organization are pairwise distinct, the identity keys (metadata.name) of
\* the records a run committed are pairwise distinct.
C14_KeysUnique ==
    (pc = "done" /\ NamesDistinct) =>
        \A i, j \in DOMAIN Submitted :
            i # j => Submitted[i].name # Submitted[j].name


\* the characters an identity key may hold
KeyAlphabet == Range(LowerCase) \cup Digits \cup {"-"}

\* a name lower-cased, with every character outside [a-z0-9-] turned into '-'
Normalised(name) ==
    [i \in DOMAIN name |->
        LET c == LowerChar(name[i])
        IN  IF c \in KeyAlphabet THEN c ELSE "-"]

\* the mapper was called and gave a record
Mapped == mapIn # None /\ mapIn.op = "map" /\ mapOut # None /\ mapOut.value # None

\* C15 as the specification states it: the identity key of every record of
\* the mapper is non-empty, holds only characters of [a-z0-9-], and is the
\* repository's name lower-cased with every other character replaced by '-'.
C15_AsStated ==
    Mapped =>
        /\ Len(mapOut.value.name) > 0
        /\ Range(mapOut.value.name) \subseteq KeyAlphabet
        /\ mapOut.value.name = Normalised(mapIn.repository.name)

\* C15, amended: the identity key of every record of the mapper is non-empty
\* and holds only characters of [a-z0-9-]; in the variant that does not fold
\* the project in, it is the repository's name lower-cased with every other
\* character replaced by '-', and in the variant that does, it is the
\* project's name treated the same way, a '-', and then that.
C15_KeyWellFormed ==
    Mapped =>
        /\ Len(mapOut.value.name) > 0
        /\ Range(mapOut.value.name) \subseteq KeyAlphabet
        /\ mapIn.v = "B" =>
             mapOut.value.name = Normalised(mapIn.repository.name)
        /\ mapIn.v = "A" =>
             mapOut.value.name = Normalised(mapIn.project.name) \o <<"-">>
                                    \o Normalised(mapIn.repository.name)

\* a record of the variant that folds the project in, for a repository whose
\* name holds an upper-case letter and a space
C15_Witness ==
    /\ Mapped
    /\ mapIn.v = "A"
    /\ mapIn.repository.name = LibX.name
    /\ mapIn.project.name = Alpha.name
    /\ mapOut.value.name = <<"a", "l", "p", "h", "a", "-", "l", "i", "b", "-", "x">>


\* where the repository of a record was listed: <<project index, repository index>>
PlaceOf(e) ==
    CHOOSE km \in Listed :
        RepoKey(projects[km[1]], obs[km[1]].repos[km[2]]) = e.projectRepo

\* a comes before b in the order of the answers
Earlier(a, b) == a[1] < b[1] \/ (a[1] = b[1] /\ a[2] < b[2])

\* C16  Encounter order is preserved: in the collection a run submitted, each
\* record is of a repository the run was given, the records of one project
\* stand in the order in which getRepositories listed their repositories, and
\* the records of a project listed earlier by getProjects stand before those
\* of a project listed later.
C16_EncounterOrder ==
    Len(applied) >= 1 =>
        /\ \A i \in DOMAIN Submitted :
             \E km \in Listed :
                RepoKey(projects[km[1]], obs[km[1]].repos[km[2]])
                    = Submitted[i].projectRepo
        /\ \A i, j \in DOMAIN Submitted :
             i < j => Earlier(PlaceOf(Submitted[i]), PlaceOf(Submitted[j]))

\* a committed run with two records of its first project and one of a later
\* project, in the order of the answers
C16_Witness ==
    /\ pc = "done"
    /\ Len(Submitted) >= 3
    /\ PlaceOf(Submitted[1])[1] = PlaceOf(Submitted[2])[1]
    /\ PlaceOf(Submitted[1])[2] < PlaceOf(Submitted[2])[2]
    /\ PlaceOf(Submitted[2])[1] < PlaceOf(Submitted[3])[1]


\* C17  A per-project failure deletes the project's records.  When a run in
\* which getRepositories failed for a project has committed, the full set it
\* submitted holds no record of that project, and the inventory holds none
\* either: what an earlier run had committed for the project is gone, and the
\* other records this provider had are replaced by the submitted ones.
C17_FailureDeletes ==
    pc = "done" =>
        \A k \in DOMAIN obs :
            obs[k].status = "failed" =>
                /\ applied[1].type = "full"
                /\ OfProject(Submitted, projects[k]) = {}
                /\ {x \in Mine(inventory) : IsOf(x.entity, projects[k])} = {}
                /\ {x.entity : x \in Mine(inventory)} = Range(Submitted)

\* the second run of a provider: the first had committed records of Alpha's
\* two repositories; in this one getRepositories failed for Alpha and answered
\* for Beta, and after the commit the inventory holds Beta's record and
\* nothing of Alpha
C17_Witness ==
    /\ pc = "done"
    /\ runs = 2
    /\ Len(projects) >= 2
    /\ projects[1] = Alpha
    /\ obs[1].status = "failed"
    /\ \E x \in Mine(invAtStart) : x.entity.projectRepo = RepoKey(Alpha, SvcTwo)
    /\ \E x \in Mine(invAtStart) : x.entity.projectRepo = RepoKey(Alpha, SvcOne)
    /\ ~InInventory(Alpha, SvcOne) /\ ~InInventory(Alpha, SvcTwo)
    /\ InInventory(Beta, LibX)


\* the loop of discoverRepositories of a frame is over
FrameOver(f) ==
    f.pc \in {"applyMutation", "done"} \/ (f.pc = "failed" /\ f.err = "commit")

\* the entities of a mutation, as a set
EntitiesOf(mutation) == {mutation.entities[i].entity : i \in DOMAIN mutation.entities}

\* C12  Idempotence, statelessness: when two runs of one provider (the
\* configuration is the same) were given the same projects, the same
\* repositories with the same root listings, and the same outcome of every
\* call, the collections they built are equal as sets, and so are the sets
\* they submitted, whatever the first left in the catalog.
C12_Idempotent ==
    (/\ other # NoFrame
     /\ FrameOver(other) /\ LoopOver
     /\ projects = other.projects /\ obs = other.obs) =>
        /\ Range(entities) = Range(other.entities)
        /\ (Len(applied) = 1 /\ Len(other.applied) = 1) =>
              /\ EntitiesOf(applied[1]) = EntitiesOf(other.applied[1])
              /\ applied[1].type = other.applied[1].type

\* the second of two successive runs that were given the same answers (both
\* repositories of Alpha, the probe of the second one failing) has committed
\* what the first had committed
C12_Witness ==
    /\ runs = 2
    /\ other # NoFrame /\ other.at = "ended" /\ other.pc = "done"
    /\ pc = "done"
    /\ projects = <<Alpha>> /\ other.projects = projects
    /\ obs = other.obs
    /\ obs[1].repos = <<SvcOne, SvcTwo>>
    /\ obs[1].probes = <<"ok", "failed">>
    /\ Len(entities) = 2
    /\ invAtStart # {}
    /\ inventory = invAtStart


\* C18  No run-overlap guard.  When run() is called while an invocation is in
\* flight, the new invocation starts with fresh locals and the earlier one
\* stays in flight where it stood, with what it had gathered; nothing stops
\* either from going on to applyMutation.  And whenever both of two
\* invocations have committed, the catalog holds for this provider the set
\* of the one that committed last, whatever the other had been given.
C18_NoOverlapGuard ==
    /\ [][(pc \in InFlight /\ runs' = runs + 1) =>
             /\ other' # NoFrame
             /\ other'.pc = pc /\ other'.entities = entities /\ other'.obs = obs
             /\ pc' = "getApis" /\ entities' = <<>> /\ applied' = <<>>]_vars
    /\ []((pc = "done" /\ other # NoFrame /\ other.pc = "done") =>
             {x.entity : x \in Mine(inventory)} = Range(entities))

\* two overlapping invocations: the first had gone through its projects when
\* the second was entered; the second was given other answers and committed;
\* then the first committed, and the catalog holds the set of the first,
\* which is not the set of the second
C18_Witness ==
    /\ runs = 2
    /\ pc = "done"
    /\ other # NoFrame /\ other.pc = "done"
    /\ other.rank = 2 /\ other.at = "applyMutation"
    /\ obs # other.obs
    /\ Range(entities) # Range(other.entities)
    /\ {x.entity : x \in Mine(inventory)} = Range(entities)
    /\ {x.entity : x \in Mine(inventory)} # Range(other.entities)
    /\ Len(applied) = 1 /\ Len(other.applied) = 1


\* C19  connect() stores the connection no later than it hands run() to the
\* schedule, and nothing clears the connection afterwards; so every run the
\* schedule starts finds the provider initialized: it goes on to the remote
\* calls and does not fail with 'Not initialized'.
C19_ScheduledRunsInitialized ==
    [][/\ scheduled' => connection'
       /\ connection => connection'
       /\ scheduled => scheduled'
       /\ ScheduledRun => (pc' = "getApis" /\ err' # "Not initialized")]_vars

\* the second run of a connected provider, started after the first had ended,
\* has gone past the check of the connection and committed
C19_Witness ==
    /\ scheduled /\ connection
    /\ runs = 2
    /\ pc = "done"
    /\ err = "none"
    /\ "applyMutation" \in calls

====
